---- MODULE Spec2Model ----
(***************************************************************************)
(* Readiness-gated batch ingestion: setup_collection.py (wait for the      *)
(* service, connect, replace the collection, load the dataset) and         *)
(* weaviate_server.py (wait for the service, connect at import time, and   *)
(* the suppress_subprocess_output context manager).                        *)
(*                                                                         *)
(* The vector database is an external collaborator.  It is modelled as a   *)
(* list of collections; every call the scripts make on it may succeed or   *)
(* be rejected.  Wall-clock time is counted in whole seconds.  A health    *)
(* request takes at most its 5s request timeout, time.sleep(2) takes 2s,   *)
(* every other statement takes no time.  client.close() does not raise.    *)
(***************************************************************************)
EXTENDS Integers, Sequences, FiniteSets, TLC

VARIABLES
    prog,          \* which script the process runs: "setup", "server" or a direct "probe" call
    pc,            \* position of the process in that script
    run,           \* number of processes started so far
    timeout,       \* wait_for_weaviate: the timeout argument
    elapsed,       \* wait_for_weaviate: time.time() - start_time
    status,        \* wait_for_weaviate: outcome of the last health request
    ret,           \* value returned by wait_for_weaviate
    client,        \* main: the local name client ("unbound", "open", "closed")
    closeCalls,    \* number of client.close() calls of this process
    db,            \* the service: the list of collections it stores
    creates,       \* history: number of calls of create_bbc_collection that returned, over all runs
    found,         \* create_bbc_collection: result of collections.exists
    collection,    \* main: the handle returned by create_bbc_collection
    bbc_data,      \* load_data_to_collection: the records joblib.load returned
    data_objects,  \* load_data_to_collection: the normalized records
    i,             \* load_data_to_collection: number of records submitted
    buffer,        \* the batch: objects added and not yet flushed
    submitted,     \* history: the objects passed to batch.add_object, in call order
    reports,       \* history: the <<count, total>> pairs printed by the progress line
    failed,        \* the batch: number of objects the service refused
    batchOpened,   \* history: number of times collection.batch.dynamic() was entered
    loadRet,       \* value returned by load_data_to_collection
    phase,         \* history: the stages of main passed by this process
    pending,       \* exit status the process ends with once the finally block has run
    exitCode,      \* exit status of the process
    popen,         \* the process-wide subprocess.Popen
    saved,         \* suppress_subprocess_output: original_popen of each context in use, outermost first
    raising,       \* an exception raised in the body of a context is propagating
    uses           \* history: number of contexts entered by this process

waitVars == <<timeout, elapsed, status, ret>>
connVars == <<client, closeCalls>>
schemaVars == <<found, collection>>
loadVars == <<bbc_data, data_objects, i, buffer, submitted, reports, failed, batchOpened, loadRet>>
mainVars == <<phase, pending, exitCode>>
patchVars == <<popen, saved, raising, uses>>
vars == <<prog, pc, run, waitVars, connVars, db, creates, schemaVars, loadVars, mainVars, patchVars>>

----------------------------------------------------------------------------
(* Bounds of the model *)

MaxTimeout == 7       \* timeouts tried by a direct call of wait_for_weaviate: 0..MaxTimeout
MaxLen == 2           \* longest dataset read from data/bbc_data.joblib
MaxRuns == 2          \* processes started one after the other against the same service
MaxFailed == 2        \* objects the service refuses within one batch session
LongLen == 250        \* longest dataset of the runs that only load
MaxUses == 3          \* suppress_subprocess_output contexts one process enters, nested or in a row

(* Program constants *)

DefaultTimeout == 60
RequestTimeout == 5
SleepInterval == 2
ReportInterval == 100

CollectionName == "bbc_collection"

----------------------------------------------------------------------------
(* wait_for_weaviate *)

Programs == {"setup", "server", "probe", "suppress"}

Timeouts == 0..MaxTimeout

HealthOutcomes == {"200", "503", "RequestException"}

\* variant: the loop is also entered when the elapsed time equals the timeout
WaitLoopCondInclusive(e, t) == e <= t

\* while time.time() - start_time < timeout
WaitLoopCond(e, t) == e < t

\* wait_for_weaviate(timeout = t) is entered: start_time = time.time()
EnterWait(t) ==
    /\ timeout' = t
    /\ elapsed' = 0
    /\ status' = "none"
    /\ ret' = "none"
    /\ pc' = "wait_loop"

\* the local frame of wait_for_weaviate is gone once the caller has its result
LeaveWait ==
    /\ timeout' = 0
    /\ elapsed' = 0
    /\ status' = "none"
    /\ ret' = "none"

\* a direct call wait_for_weaviate(timeout = t)
ProbeCall ==
    /\ prog = "probe" /\ pc = "start"
    /\ \E t \in Timeouts : EnterWait(t)
    /\ UNCHANGED <<prog, patchVars, run, connVars, db, creates, schemaVars, loadVars, mainVars>>

\* the loop test; falling out of the loop returns False
WaitLoop ==
    /\ pc = "wait_loop"
    /\ IF WaitLoopCond(elapsed, timeout)
          THEN pc' = "wait_request" /\ ret' = ret
          ELSE pc' = "wait_ret" /\ ret' = "false"
    /\ UNCHANGED <<prog, patchVars, run, timeout, elapsed, status, connVars, db, creates, schemaVars, loadVars, mainVars>>

\* requests.get(..., timeout=5): answers 200, answers another status, or raises
WaitRequest ==
    /\ pc = "wait_request"
    /\ \E d \in 0..RequestTimeout, o \in HealthOutcomes :
          /\ elapsed' = elapsed + d
          /\ status' = o
    /\ pc' = "wait_response"
    /\ UNCHANGED <<prog, patchVars, run, timeout, ret, connVars, db, creates, schemaVars, loadVars, mainVars>>

\* variant: a failed health request ends the wait with False
WaitResponseGivesUp ==
    /\ pc = "wait_response"
    /\ CASE status = "200" -> pc' = "wait_ret" /\ ret' = "true"
         [] status = "RequestException" -> pc' = "wait_ret" /\ ret' = "false"
         [] OTHER -> pc' = "wait_sleep" /\ ret' = ret
    /\ UNCHANGED <<prog, patchVars, run, timeout, elapsed, status, connVars, db, creates, schemaVars, loadVars, mainVars>>

\* variant: the sleep is taken before the 200 answer is looked at
WaitResponseLate ==
    /\ pc = "wait_response"
    /\ elapsed' = elapsed + SleepInterval
    /\ IF status = "200"
          THEN pc' = "wait_ret" /\ ret' = "true"
          ELSE pc' = "wait_loop" /\ ret' = ret
    /\ UNCHANGED <<prog, patchVars, run, timeout, status, connVars, db, creates, schemaVars, loadVars, mainVars>>

\* if response.status_code == 200: return True; an exception is passed over
WaitResponse ==
    /\ pc = "wait_response"
    /\ IF status = "200"
          THEN pc' = "wait_ret" /\ ret' = "true"
          ELSE pc' = "wait_sleep" /\ ret' = ret
    /\ UNCHANGED <<prog, patchVars, run, timeout, elapsed, status, connVars, db, creates, schemaVars, loadVars, mainVars>>

\* print("Waiting ..."); time.sleep(2)
WaitSleep ==
    /\ pc = "wait_sleep"
    /\ elapsed' = elapsed + SleepInterval
    /\ pc' = "wait_loop"
    /\ UNCHANGED <<prog, patchVars, run, timeout, status, ret, connVars, db, creates, schemaVars, loadVars, mainVars>>

\* the direct call has returned to its caller
ProbeDone ==
    /\ prog = "probe" /\ pc = "wait_ret"
    /\ pc' = "done"
    /\ phase' = phase \cup {IF ret = "true" THEN "ready" ELSE "not_ready"}
    /\ UNCHANGED <<prog, patchVars, run, waitVars, connVars, db, creates, schemaVars, loadVars, pending, exitCode>>

----------------------------------------------------------------------------
(* The service: a list of collections.  It stores what it is asked to     *)
(* store; keeping names unique is left to its callers.                    *)

Property(n, t) == [name |-> n, data_type |-> t]

\* properties=[...] of collections.create
SchemaProperties ==
    << Property("article_content", "TEXT"),
       Property("chunk", "TEXT"),
       Property("chunk_index", "INT"),
       Property("description", "TEXT"),
       Property("link", "TEXT"),
       Property("pubDate", "TEXT"),
       Property("title", "TEXT") >>

\* the collection collections.create is asked for
NewCollection ==
    [ name |-> CollectionName,
      properties |-> SchemaProperties,
      vectorizer |-> "text2vec_transformers",
      vectorize_collection_name |-> FALSE,
      vector_index |-> "hnsw",
      objects |-> <<>> ]

\* what the service may hold before the first run
OldCollection ==
    [ name |-> CollectionName,
      properties |-> << Property("title", "TEXT"), Property("body", "TEXT") >>,
      vectorizer |-> "none",
      vectorize_collection_name |-> TRUE,
      vector_index |-> "flat",
      objects |-> << [title |-> "old", body |-> "old"] >> ]

OtherCollection ==
    [ name |-> "other_collection",
      properties |-> << Property("text", "TEXT") >>,
      vectorizer |-> "none",
      vectorize_collection_name |-> TRUE,
      vector_index |-> "hnsw",
      objects |-> << [text |-> "kept"] >> ]

InitialDbs == { <<>>, <<OldCollection>>, <<OtherCollection, OldCollection>> }

\* variant: exists never reports the collection
ExistsNever(d, n) == FALSE

\* client.collections.exists(n)
Exists(d, n) == \E k \in 1..Len(d) : d[k].name = n

\* variant: delete spares a collection that holds objects
DeleteEmptyOnly(d, n) == SelectSeq(d, LAMBDA c : c.name # n \/ c.objects # <<>>)

\* variant: delete leaves the collection in place
DeleteNothing(d, n) == d

\* client.collections.delete(n)
Delete(d, n) == SelectSeq(d, LAMBDA c : c.name # n)

\* client.collections.create(...)
Create(d, c) == Append(d, c)

\* the service stores object o in the collection the handle n names
Store(d, n, o) ==
    [k \in 1..Len(d) |->
        IF d[k].name = n THEN [d[k] EXCEPT !.objects = Append(@, o)] ELSE d[k]]

\* the collections of name n, and the number of objects the collection n holds
Named(d, n) == SelectSeq(d, LAMBDA c : c.name = n)

ObjectCount(d, n) == IF Exists(d, n) THEN Len(Named(d, n)[1].objects) ELSE 0

----------------------------------------------------------------------------
(* The dataset file and the records in it *)

FullItem ==
    [ article_content |-> "a1", chunk |-> "c1", chunk_index |-> 3,
      description |-> "d1", link |-> "l1", pubDate |-> "p1", title |-> "t1" ]

PartialItem == [ chunk |-> "c2", link |-> "l2", category |-> "x2" ]

LinkItem == [ link |-> "l3", chunk_index |-> 1 ]

Items == {FullItem, PartialItem, LinkItem}

RECURSIVE SeqsUpTo(_)
SeqsUpTo(n) ==
    IF n = 0 THEN { <<>> }
    ELSE LET S == SeqsUpTo(n - 1)
         IN  S \cup { Append(s, x) : s \in {t \in S : Len(t) = n - 1}, x \in Items }

\* what joblib.load can give: a sequence of records
Datasets == SeqsUpTo(MaxLen)

\* datasets long enough for the progress line: 99, 100 and LongLen records
LongLens == {ReportInterval - 1, ReportInterval, LongLen}

LongDatasets == { [k \in 1..n |-> LinkItem] : n \in LongLens }

\* item.get(key, default)
Get(item, key, default) == IF key \in DOMAIN item THEN item[key] ELSE default

\* variant: other values than "" and 0 stand in for missing fields
DataObjectOtherDefaults(item) ==
    [ article_content |-> Get(item, "article_content", ""),
      chunk |-> Get(item, "chunk", ""),
      chunk_index |-> Get(item, "chunk_index", -1),
      description |-> Get(item, "description", ""),
      link |-> Get(item, "link", ""),
      pubDate |-> Get(item, "pubDate", ""),
      title |-> Get(item, "title", "None") ]

\* the data_object built from one item
DataObject(item) ==
    [ article_content |-> Get(item, "article_content", ""),
      chunk |-> Get(item, "chunk", ""),
      chunk_index |-> Get(item, "chunk_index", 0),
      description |-> Get(item, "description", ""),
      link |-> Get(item, "link", ""),
      pubDate |-> Get(item, "pubDate", ""),
      title |-> Get(item, "title", "") ]

\* the for loop that fills data_objects
DataObjects(data) == [k \in 1..Len(data) |-> DataObject(data[k])]

----------------------------------------------------------------------------
(* setup_collection.py: main *)

\* main calls wait_for_weaviate() with the default timeout
MainStart ==
    /\ prog = "setup" /\ pc = "start"
    /\ EnterWait(DefaultTimeout)
    /\ UNCHANGED <<prog, patchVars, run, connVars, db, creates, schemaVars, loadVars, mainVars>>

\* variant: the result of wait_for_weaviate is not looked at
MainAfterWaitUnchecked ==
    /\ prog = "setup" /\ pc = "wait_ret"
    /\ pc' = "connect"
    /\ phase' = phase \cup {IF ret = "true" THEN "ready" ELSE "not_ready"}
    /\ LeaveWait
    /\ UNCHANGED <<prog, patchVars, run, connVars, db, creates, schemaVars, loadVars, pending, exitCode>>

\* if not wait_for_weaviate(): sys.exit(1), outside the try block
MainAfterWait ==
    /\ prog = "setup" /\ pc = "wait_ret"
    /\ IF ret = "true"
          THEN /\ pc' = "connect"
               /\ phase' = phase \cup {"ready"}
               /\ exitCode' = exitCode
          ELSE /\ pc' = "exited"
               /\ phase' = phase \cup {"not_ready"}
               /\ exitCode' = 1
    /\ LeaveWait
    /\ UNCHANGED <<prog, patchVars, run, connVars, db, creates, schemaVars, loadVars, pending>>

\* client = weaviate.connect_to_local(...): binds client or raises
MainConnect ==
    /\ prog = "setup" /\ pc = "connect"
    /\ \E ok \in BOOLEAN :
          IF ok
             THEN /\ client' = "open"
                  /\ phase' = phase \cup {"connect_called", "connected"}
                  /\ pc' = "create_exists"
             ELSE /\ client' = client
                  /\ phase' = phase \cup {"connect_called", "connect_failed"}
                  /\ pc' = "except"
    /\ UNCHANGED <<prog, patchVars, run, waitVars, closeCalls, db, creates, schemaVars, loadVars, pending, exitCode>>

\* create_bbc_collection: if client.collections.exists("bbc_collection")
CreateExists ==
    /\ pc = "create_exists"
    /\ \E ok \in BOOLEAN :
          IF ok
             THEN /\ found' = Exists(db, CollectionName)
                  /\ pc' = IF found' THEN "create_delete" ELSE "create_create"
                  /\ phase' = phase \cup {"schema_called"}
             ELSE /\ found' = found
                  /\ pc' = "except"
                  /\ phase' = phase \cup {"schema_called", "schema_failed"}
    /\ UNCHANGED <<prog, patchVars, run, waitVars, connVars, db, creates, collection, loadVars, pending, exitCode>>

\* create_bbc_collection: client.collections.delete("bbc_collection")
CreateDelete ==
    /\ pc = "create_delete"
    /\ \E ok \in BOOLEAN :
          IF ok
             THEN /\ db' = Delete(db, CollectionName)
                  /\ pc' = "create_create"
                  /\ phase' = phase
             ELSE /\ db' = db
                  /\ pc' = "except"
                  /\ phase' = phase \cup {"schema_failed"}
    /\ UNCHANGED <<prog, patchVars, run, waitVars, connVars, creates, schemaVars, loadVars, pending, exitCode>>

\* variant: a rejected create is tried again
CreateCreateRetries ==
    /\ pc = "create_create"
    /\ \E ok \in BOOLEAN :
          IF ok
             THEN /\ db' = Create(db, NewCollection)
                  /\ creates' = creates + 1
                  /\ collection' = CollectionName
                  /\ pc' = "load_read"
                  /\ phase' = phase \cup {"created"}
             ELSE /\ db' = db
                  /\ creates' = creates
                  /\ collection' = collection
                  /\ pc' = "create_create"
                  /\ phase' = phase \cup {"schema_failed"}
    /\ UNCHANGED <<prog, patchVars, run, waitVars, connVars, found, loadVars, pending, exitCode>>

\* create_bbc_collection: collection = client.collections.create(...); return collection
CreateCreate ==
    /\ pc = "create_create"
    /\ \E ok \in BOOLEAN :
          IF ok
             THEN /\ db' = Create(db, NewCollection)
                  /\ creates' = creates + 1
                  /\ collection' = CollectionName
                  /\ pc' = "load_read"
                  /\ phase' = phase \cup {"created"}
             ELSE /\ db' = db
                  /\ creates' = creates
                  /\ collection' = collection
                  /\ pc' = "except"
                  /\ phase' = phase \cup {"schema_failed"}
    /\ UNCHANGED <<prog, patchVars, run, waitVars, connVars, found, loadVars, pending, exitCode>>

----------------------------------------------------------------------------
(* setup_collection.py: load_data_to_collection *)

FileStates == {"absent", "corrupt", "readable"}

\* variant: a missing file is reported and the load goes on with no records
LoadReadIgnoresAbsence ==
    /\ pc = "load_read"
    /\ \E f \in FileStates, data \in Datasets :
          CASE f = "absent" ->
                  /\ bbc_data' = <<>>
                  /\ data_objects' = <<>>
                  /\ loadRet' = loadRet
                  /\ phase' = phase \cup {"load_called", "file_absent"}
                  /\ pc' = "batch_enter"
            [] f = "corrupt" ->
                  /\ bbc_data' = bbc_data
                  /\ data_objects' = data_objects
                  /\ loadRet' = loadRet
                  /\ phase' = phase \cup {"load_called", "load_raised"}
                  /\ pc' = "except"
            [] f = "readable" ->
                  /\ bbc_data' = data
                  /\ data_objects' = DataObjects(data)
                  /\ loadRet' = loadRet
                  /\ phase' = phase \cup {"load_called"}
                  /\ pc' = "batch_enter"
    /\ UNCHANGED <<prog, patchVars, run, waitVars, connVars, db, creates, schemaVars, i, buffer, submitted,
                   reports, failed, batchOpened, pending, exitCode>>

\* joblib.load('data/bbc_data.joblib') and the loop that builds data_objects.
\* FileNotFoundError is caught and gives False; any other exception (a file
\* that does not unpickle, an item without .get) leaves the function.
LoadRead ==
    /\ pc = "load_read"
    /\ \E f \in FileStates, data \in Datasets :
          CASE f = "absent" ->
                  /\ bbc_data' = bbc_data
                  /\ data_objects' = data_objects
                  /\ loadRet' = "false"
                  /\ phase' = phase \cup {"load_called", "file_absent"}
                  /\ pc' = "load_ret"
            [] f = "corrupt" ->
                  /\ bbc_data' = bbc_data
                  /\ data_objects' = data_objects
                  /\ loadRet' = loadRet
                  /\ phase' = phase \cup {"load_called", "load_raised"}
                  /\ pc' = "except"
            [] f = "readable" ->
                  /\ bbc_data' = data
                  /\ data_objects' = DataObjects(data)
                  /\ loadRet' = loadRet
                  /\ phase' = phase \cup {"load_called"}
                  /\ pc' = "batch_enter"
    /\ UNCHANGED <<prog, patchVars, run, waitVars, connVars, db, creates, schemaVars, i, buffer, submitted,
                   reports, failed, batchOpened, pending, exitCode>>

\* the same statements, reading a file that holds one of the long datasets
LoadReadLong ==
    /\ pc = "load_read"
    /\ \E f \in FileStates, data \in LongDatasets :
          CASE f = "absent" ->
                  /\ bbc_data' = bbc_data
                  /\ data_objects' = data_objects
                  /\ loadRet' = "false"
                  /\ phase' = phase \cup {"load_called", "file_absent"}
                  /\ pc' = "load_ret"
            [] f = "corrupt" ->
                  /\ bbc_data' = bbc_data
                  /\ data_objects' = data_objects
                  /\ loadRet' = loadRet
                  /\ phase' = phase \cup {"load_called", "load_raised"}
                  /\ pc' = "except"
            [] f = "readable" ->
                  /\ bbc_data' = data
                  /\ data_objects' = DataObjects(data)
                  /\ loadRet' = loadRet
                  /\ phase' = phase \cup {"load_called"}
                  /\ pc' = "batch_enter"
    /\ UNCHANGED <<prog, patchVars, run, waitVars, connVars, db, creates, schemaVars, i, buffer, submitted,
                   reports, failed, batchOpened, pending, exitCode>>

\* with collection.batch.dynamic() as batch: the session opens
BatchEnter ==
    /\ pc = "batch_enter"
    /\ batchOpened' = batchOpened + 1
    /\ pc' = "batch_loop"
    /\ UNCHANGED <<prog, patchVars, run, waitVars, connVars, db, creates, schemaVars, bbc_data, data_objects, i, buffer,
                   submitted, reports, failed, loadRet, mainVars>>

\* variant: the progress line is printed when i % 100 == 0, i the 0-based index
ReportsZeroBased(n) == (n - 1) % ReportInterval = 0

\* the progress line is printed when (i + 1) % 100 == 0, i the 0-based index
Reports(n) == n % ReportInterval = 0

\* variant: the loop walks data_objects from the last one to the first
BatchAddReversed ==
    /\ pc = "batch_loop"
    /\ i < Len(data_objects)
    /\ buffer' = Append(buffer, data_objects[Len(data_objects) - i])
    /\ submitted' = Append(submitted, data_objects[Len(data_objects) - i])
    /\ reports' = IF Reports(i + 1)
                      THEN Append(reports, <<i + 1, Len(data_objects)>>)
                      ELSE reports
    /\ i' = i + 1
    /\ UNCHANGED <<prog, patchVars, pc, run, waitVars, connVars, db, creates, schemaVars, bbc_data,
                   data_objects, failed, batchOpened, loadRet, mainVars>>

\* one pass of the for loop: batch.add_object(properties=data_object), progress line
BatchAdd ==
    /\ pc = "batch_loop"
    /\ i < Len(data_objects)
    /\ buffer' = Append(buffer, data_objects[i + 1])
    /\ submitted' = Append(submitted, data_objects[i + 1])
    /\ reports' = IF Reports(i + 1)
                      THEN Append(reports, <<i + 1, Len(data_objects)>>)
                      ELSE reports
    /\ i' = i + 1
    /\ UNCHANGED <<prog, patchVars, pc, run, waitVars, connVars, db, creates, schemaVars, bbc_data, data_objects, failed,
                   batchOpened, loadRet, mainVars>>

\* the for loop is exhausted: the with block is left, which flushes what is buffered
BatchLoopEnd ==
    /\ pc = "batch_loop"
    /\ i = Len(data_objects)
    /\ pc' = "batch_exit"
    /\ UNCHANGED <<prog, patchVars, run, waitVars, connVars, db, creates, schemaVars, loadVars, mainVars>>

\* dynamic batching: the session sends its oldest buffered object when it chooses to;
\* the service stores it, or refuses it, which the session records and does not raise
BatchFlush ==
    /\ pc \in {"batch_loop", "batch_exit"}
    /\ buffer # <<>>
    /\ \E stored \in BOOLEAN :
          IF stored
             THEN /\ db' = Store(db, collection, Head(buffer))
                  /\ failed' = failed
             ELSE /\ failed < MaxFailed
                  /\ db' = db
                  /\ failed' = failed + 1
    /\ buffer' = Tail(buffer)
    /\ UNCHANGED <<prog, patchVars, pc, run, waitVars, connVars, creates, schemaVars, bbc_data, data_objects, i,
                   submitted, reports, batchOpened, loadRet, mainVars>>

\* the with block ends with everything flushed: the success line, return True
BatchClose ==
    /\ pc = "batch_exit"
    /\ buffer = <<>>
    /\ loadRet' = "true"
    /\ pc' = "load_ret"
    /\ UNCHANGED <<prog, patchVars, run, waitVars, connVars, db, creates, schemaVars, bbc_data, data_objects, i, buffer,
                   submitted, reports, failed, batchOpened, mainVars>>

\* variant: the failed load empties the collection again before it returns False
BatchRaiseRollsBack ==
    /\ pc \in {"batch_loop", "batch_exit"}
    /\ buffer' = <<>>
    /\ db' = [k \in 1..Len(db) |->
                IF db[k].name = collection THEN [db[k] EXCEPT !.objects = <<>>] ELSE db[k]]
    /\ loadRet' = "false"
    /\ phase' = phase \cup {"batch_raised"}
    /\ pc' = "load_ret"
    /\ UNCHANGED <<prog, patchVars, run, waitVars, connVars, creates, schemaVars, bbc_data, data_objects,
                   i, submitted, reports, failed, batchOpened, pending, exitCode>>

\* the batching context raises (the connection drops): what is buffered is lost,
\* except Exception prints the error, return False
BatchRaise ==
    /\ pc \in {"batch_loop", "batch_exit"}
    /\ buffer' = <<>>
    /\ loadRet' = "false"
    /\ phase' = phase \cup {"batch_raised"}
    /\ pc' = "load_ret"
    /\ UNCHANGED <<prog, patchVars, run, waitVars, connVars, db, creates, schemaVars, bbc_data, data_objects, i, submitted,
                   reports, failed, batchOpened, pending, exitCode>>

----------------------------------------------------------------------------
(* setup_collection.py: main, after the load *)

\* variant: the failed load ends the process at once, without the finally block
MainAfterLoadExitsDirectly ==
    /\ pc = "load_ret"
    /\ IF loadRet = "true"
          THEN /\ pending' = 0
               /\ phase' = phase \cup {"loaded"}
               /\ pc' = "finally"
               /\ exitCode' = exitCode
          ELSE /\ pending' = 1
               /\ phase' = phase \cup {"load_failed"}
               /\ pc' = "exited"
               /\ exitCode' = 1
    /\ UNCHANGED <<prog, patchVars, run, waitVars, connVars, db, creates, schemaVars, loadVars>>

\* if load_data_to_collection(...): success lines; else: sys.exit(1).
\* SystemExit is not an Exception: it passes the except clause and runs the finally block.
MainAfterLoad ==
    /\ pc = "load_ret"
    /\ IF loadRet = "true"
          THEN /\ pending' = 0
               /\ phase' = phase \cup {"loaded"}
          ELSE /\ pending' = 1
               /\ phase' = phase \cup {"load_failed"}
    /\ pc' = "finally"
    /\ UNCHANGED <<prog, patchVars, run, waitVars, connVars, db, creates, schemaVars, loadVars, exitCode>>

\* variant: the except clause prints and does not call sys.exit(1)
MainExceptFallsThrough ==
    /\ pc = "except"
    /\ pending' = 0
    /\ pc' = "finally"
    /\ UNCHANGED <<prog, patchVars, run, waitVars, connVars, db, creates, schemaVars, loadVars, phase, exitCode>>

\* except Exception as e: two lines printed, sys.exit(1)
MainExcept ==
    /\ pc = "except"
    /\ pending' = 1
    /\ pc' = "finally"
    /\ UNCHANGED <<prog, patchVars, run, waitVars, connVars, db, creates, schemaVars, loadVars, phase, exitCode>>

\* 'client' in locals()
ClientBound(c) == c # "unbound"

\* finally: if 'client' in locals(): client.close(); then the process ends
MainFinally ==
    /\ pc = "finally"
    /\ IF ClientBound(client)
          THEN /\ client' = "closed"
               /\ closeCalls' = closeCalls + 1
          ELSE UNCHANGED <<client, closeCalls>>
    /\ exitCode' = pending
    /\ pc' = "exited"
    /\ UNCHANGED <<prog, patchVars, run, waitVars, db, creates, schemaVars, loadVars, phase, pending>>

----------------------------------------------------------------------------
(* weaviate_server.py: the module-level statements *)

\* if wait_for_weaviate():
ServerStart ==
    /\ prog = "server" /\ pc = "start"
    /\ EnterWait(DefaultTimeout)
    /\ UNCHANGED <<prog, patchVars, run, connVars, db, creates, schemaVars, loadVars, mainVars>>

\* else: raise Exception("Weaviate is not ready after waiting"), printed and raised again
ServerAfterWait ==
    /\ prog = "server" /\ pc = "wait_ret"
    /\ IF ret = "true"
          THEN /\ pc' = "server_connect"
               /\ phase' = phase \cup {"ready"}
               /\ exitCode' = exitCode
          ELSE /\ pc' = "exited"
               /\ phase' = phase \cup {"not_ready"}
               /\ exitCode' = 1
    /\ LeaveWait
    /\ UNCHANGED <<prog, patchVars, run, connVars, db, creates, schemaVars, loadVars, pending>>

\* client = weaviate.connect_to_local(...); a failure is printed and raised again
ServerConnect ==
    /\ prog = "server" /\ pc = "server_connect"
    /\ \E ok \in BOOLEAN :
          IF ok
             THEN /\ client' = "open"
                  /\ phase' = phase \cup {"connect_called", "connected"}
                  /\ pc' = "imported"
                  /\ exitCode' = exitCode
             ELSE /\ client' = client
                  /\ phase' = phase \cup {"connect_called", "connect_failed"}
                  /\ pc' = "exited"
                  /\ exitCode' = 1
    /\ UNCHANGED <<prog, patchVars, run, waitVars, closeCalls, db, creates, schemaVars, loadVars, pending>>

----------------------------------------------------------------------------
(* weaviate_server.py: suppress_subprocess_output, used by a process      *)
(* "suppress" that enters the context, possibly nested, and leaves each   *)
(* body either normally or by an exception.                               *)

\* subprocess.Popen as the subprocess module defines it
Original == 0

\* patched_popen: a new function that wraps the original_popen v it was made with
Patched(v) == v + 1

\* the process starts to use the context manager
SuppressStart ==
    /\ prog = "suppress" /\ pc = "start"
    /\ pc' = "suppress_body"
    /\ UNCHANGED <<prog, run, waitVars, connVars, db, creates, schemaVars, loadVars, mainVars, patchVars>>

\* with suppress_subprocess_output(): original_popen = subprocess.Popen;
\* subprocess.Popen = patched_popen; yield
SuppressEnter ==
    /\ pc = "suppress_body"
    /\ uses < MaxUses
    /\ uses' = uses + 1
    /\ saved' = Append(saved, popen)
    /\ popen' = Patched(popen)
    /\ UNCHANGED <<prog, pc, run, waitVars, connVars, db, creates, schemaVars, loadVars, mainVars, raising>>

\* the body of the innermost context ends normally: finally restores original_popen
SuppressExit ==
    /\ pc = "suppress_body"
    /\ saved # <<>>
    /\ popen' = saved[Len(saved)]
    /\ saved' = SubSeq(saved, 1, Len(saved) - 1)
    /\ UNCHANGED <<prog, pc, run, waitVars, connVars, db, creates, schemaVars, loadVars, mainVars, raising, uses>>

\* variant: without try/finally, an exception in the body skips the restore
SuppressRaiseNoRestore ==
    /\ pc = "suppress_body"
    /\ saved # <<>>
    /\ raising' = TRUE
    /\ popen' = popen
    /\ saved' = SubSeq(saved, 1, Len(saved) - 1)
    /\ pc' = "suppress_unwind"
    /\ UNCHANGED <<prog, run, waitVars, connVars, db, creates, schemaVars, loadVars, mainVars, uses>>

\* the body of the innermost context raises: the exception is thrown into the generator
\* at the yield, finally restores original_popen, and the exception goes on outwards
SuppressRaise ==
    /\ pc = "suppress_body"
    /\ saved # <<>>
    /\ raising' = TRUE
    /\ popen' = saved[Len(saved)]
    /\ saved' = SubSeq(saved, 1, Len(saved) - 1)
    /\ pc' = "suppress_unwind"
    /\ UNCHANGED <<prog, run, waitVars, connVars, db, creates, schemaVars, loadVars, mainVars, uses>>

\* the exception leaves the next enclosing context, whose finally restores its original_popen;
\* out of the outermost one it ends the process
SuppressUnwind ==
    /\ pc = "suppress_unwind"
    /\ IF saved # <<>>
          THEN /\ popen' = saved[Len(saved)]
               /\ saved' = SubSeq(saved, 1, Len(saved) - 1)
               /\ UNCHANGED <<pc, exitCode>>
          ELSE /\ pc' = "exited"
               /\ exitCode' = 1
               /\ UNCHANGED <<popen, saved>>
    /\ UNCHANGED <<prog, run, waitVars, connVars, db, creates, schemaVars, loadVars, phase, pending, raising, uses>>

\* every context has been left normally and the process ends
SuppressDone ==
    /\ pc = "suppress_body"
    /\ saved = <<>>
    /\ pc' = "exited"
    /\ exitCode' = 0
    /\ UNCHANGED <<prog, run, waitVars, connVars, db, creates, schemaVars, loadVars, phase, pending, patchVars>>

----------------------------------------------------------------------------
(* Processes *)

\* exit status -1: the process has not ended
FreshProcess ==
    /\ pc = "start"
    /\ timeout = 0 /\ elapsed = 0 /\ status = "none" /\ ret = "none"
    /\ client = "unbound" /\ closeCalls = 0
    /\ found = FALSE /\ collection = "none"
    /\ bbc_data = <<>>
    /\ data_objects = <<>> /\ i = 0 /\ buffer = <<>> /\ submitted = <<>>
    /\ reports = <<>> /\ failed = 0 /\ batchOpened = 0 /\ loadRet = "none"
    /\ phase = {} /\ pending = -1 /\ exitCode = -1
    /\ popen = Original /\ saved = <<>> /\ raising = FALSE /\ uses = 0

Ended == pc \in {"exited", "imported", "done"}

Init ==
    /\ prog \in Programs
    /\ run = 1
    /\ db \in InitialDbs
    /\ creates = 0
    /\ FreshProcess

\* the script is run again against the same service
Restart ==
    /\ Ended
    /\ run < MaxRuns
    /\ run' = run + 1
    /\ prog' \in Programs
    /\ UNCHANGED <<db, creates>>
    /\ pc' = "start"
    /\ timeout' = 0 /\ elapsed' = 0 /\ status' = "none" /\ ret' = "none"
    /\ client' = "unbound" /\ closeCalls' = 0
    /\ found' = FALSE /\ collection' = "none"
    /\ bbc_data' = <<>>
    /\ data_objects' = <<>> /\ i' = 0 /\ buffer' = <<>> /\ submitted' = <<>>
    /\ reports' = <<>> /\ failed' = 0 /\ batchOpened' = 0 /\ loadRet' = "none"
    /\ phase' = {} /\ pending' = -1 /\ exitCode' = -1
    /\ popen' = Original /\ saved' = <<>> /\ raising' = FALSE /\ uses' = 0

Next ==
    \/ ProbeCall \/ WaitLoop \/ WaitRequest \/ WaitResponse \/ WaitSleep \/ ProbeDone
    \/ MainStart \/ MainAfterWait \/ MainConnect
    \/ CreateExists \/ CreateDelete \/ CreateCreate
    \/ LoadRead \/ BatchEnter \/ BatchAdd \/ BatchLoopEnd \/ BatchFlush \/ BatchClose \/ BatchRaise
    \/ MainAfterLoad \/ MainExcept \/ MainFinally
    \/ ServerStart \/ ServerAfterWait \/ ServerConnect
    \/ SuppressStart \/ SuppressEnter \/ SuppressExit \/ SuppressRaise \/ SuppressUnwind
    \/ SuppressDone
    \/ Restart

Spec == Init /\ [][Next]_vars

\* load_data_to_collection alone, on the long datasets: the first setup run has just
\* created the collection and calls load_data_to_collection(client, collection)
InitLoad ==
    /\ prog = "setup" /\ pc = "load_read" /\ run = 1
    /\ timeout = 0 /\ elapsed = 0 /\ status = "none" /\ ret = "none"
    /\ client = "open" /\ closeCalls = 0
    /\ db = <<NewCollection>> /\ creates = 1
    /\ found = FALSE /\ collection = CollectionName
    /\ bbc_data = <<>>
    /\ data_objects = <<>> /\ i = 0 /\ buffer = <<>> /\ submitted = <<>>
    /\ reports = <<>> /\ failed = 0 /\ batchOpened = 0 /\ loadRet = "none"
    /\ phase = {"ready", "connect_called", "connected", "schema_called", "created"}
    /\ pending = -1 /\ exitCode = -1
    /\ popen = Original /\ saved = <<>> /\ raising = FALSE /\ uses = 0

NextLoad ==
    \/ LoadReadLong \/ BatchEnter \/ BatchAdd \/ BatchLoopEnd \/ BatchFlush \/ BatchClose
    \/ BatchRaise

SpecLoad == InitLoad /\ [][NextLoad]_vars

----------------------------------------------------------------------------
(* Properties *)

InWait == pc \in {"wait_loop", "wait_request", "wait_response", "wait_sleep", "wait_ret"}

\* C1 as stated: wait_for_weaviate returns within timeout + request_timeout
\* seconds of being called, whatever the health responses are.
C1_WithinTimeoutPlusRequest ==
    pc = "wait_ret" => elapsed <= timeout + RequestTimeout

\* C1 amended: wait_for_weaviate returns less than timeout + request_timeout +
\* sleep interval seconds after being called (the last failed attempt is still
\* followed by its 2s sleep); a True return comes within timeout + request_timeout.
C1_WithinTimeoutPlusRequestPlusSleep ==
    pc = "wait_ret" =>
        /\ elapsed < timeout + RequestTimeout + SleepInterval
        /\ (ret = "true" => elapsed <= timeout + RequestTimeout)

C1_Witness ==
    /\ pc = "wait_ret" /\ ret = "false"
    /\ elapsed > timeout + RequestTimeout

\* C2: in a setup run the handle bound by connect is closed exactly once on every
\* path to the end of the process, and close is never called when connect bound nothing.
C2_ClosedExactlyOnce ==
    prog = "setup" =>
        /\ closeCalls <= 1
        /\ (closeCalls = 1 => "connected" \in phase /\ client = "closed")
        /\ (pc = "exited" => closeCalls = IF "connected" \in phase THEN 1 ELSE 0)
        /\ (pc = "exited" /\ "connected" \in phase => client = "closed")

C2_Witness ==
    /\ prog = "setup" /\ pc = "exited"
    /\ "load_failed" \in phase
    /\ closeCalls = 1 /\ client = "closed"

\* C3 as stated: after a load of a non-empty input that returns True, the collection
\* holds as many objects as the input has records, also when the service refused
\* single objects without the batching context raising.
C3_CountEqualsInput ==
    (pc = "load_ret" /\ loadRet = "true" /\ Len(data_objects) > 0)
        => ObjectCount(db, collection) = Len(data_objects)

\* C4: create_bbc_collection is idempotent: every call that returns, the second in
\* succession included, leaves exactly one collection named bbc_collection, which is
\* the one asked for; and no state holds two collections of one name.
C4_Idempotent ==
    /\ \A j, k \in 1..Len(db) : db[j].name = db[k].name => j = k
    /\ (pc = "load_read" => Named(db, CollectionName) = <<NewCollection>>)

C4_Witness ==
    /\ pc = "load_read" /\ creates = 2 /\ found
    /\ Named(db, CollectionName) = <<NewCollection>>

\* C5: when bbc_collection exists with other fields and stored records, it is deleted
\* before the creation, and the collection the run then works on has exactly the new
\* field list and none of the old records.
C5_ReplacedNotMerged ==
    /\ (pc = "create_create" => ~Exists(db, CollectionName))
    /\ ("created" \in phase =>
            \A k \in 1..Len(db) :
                db[k].name = CollectionName =>
                    /\ db[k].properties = SchemaProperties
                    /\ \A m \in 1..Len(db[k].objects), o \in 1..Len(OldCollection.objects) :
                           db[k].objects[m] # OldCollection.objects[o])

C5_Witness ==
    /\ run = 1 /\ found /\ "created" \in phase
    /\ pc = "load_read"
    /\ Named(db, CollectionName)[1].properties = SchemaProperties

\* C6: when the dataset file is absent, load returns False before any insertion:
\* add_object is not called, the batching session is not opened, and the collection
\* holds what it held before the load (nothing).
C6_AbsentFileInsertsNothing ==
    "file_absent" \in phase =>
        /\ loadRet = "false"
        /\ submitted = <<>> /\ buffer = <<>>
        /\ batchOpened = 0
        /\ ObjectCount(db, CollectionName) = 0

C6_Witness ==
    /\ "file_absent" \in phase
    /\ pc = "load_ret"
    /\ Exists(db, CollectionName)

FullSuccess ==
    /\ {"ready", "connected", "created"} \subseteq phase
    /\ loadRet = "true"

Failures == {"not_ready", "connect_failed", "schema_failed", "load_raised", "load_failed"}

\* C7: a setup run ends with exit status 0 exactly when the service was ready, the
\* connection was made, the collection was created and the load returned True, and
\* with exit status 1 in every other case.
C7_ExitCodes ==
    (prog = "setup" /\ pc = "exited") =>
        /\ exitCode \in {0, 1}
        /\ (exitCode = 0 <=> FullSuccess)
        /\ (phase \cap Failures # {} => exitCode = 1)

C7_Witness ==
    /\ prog = "setup" /\ pc = "exited"
    /\ exitCode = 0 /\ FullSuccess

\* C8: the wait fails by timeout only: a health request that raised or answered another
\* status than 200 does not end the wait, it is followed by the 2s sleep, and then by
\* another request while the elapsed time is below the timeout; False is returned only
\* when the elapsed time has reached the timeout.
C8_FailsOnlyByTimeout ==
    /\ [](ret = "false" => elapsed >= timeout)
    /\ [][(pc = "wait_response" /\ status # "200")
            => (pc' = "wait_sleep" /\ ret' = "none" /\ elapsed' = elapsed)]_vars
    /\ [][pc = "wait_sleep"
            => (pc' = "wait_loop" /\ ret' = "none" /\ elapsed' = elapsed + SleepInterval)]_vars
    /\ [][(pc = "wait_loop" /\ elapsed < timeout) => pc' = "wait_request"]_vars

C8_Witness ==
    /\ pc = "wait_request"
    /\ status = "RequestException"
    /\ elapsed >= SleepInterval

\* C9: the wait returns True at once on the first 200 answer: no sleep and no further
\* request follows it, and True is not returned without a 200 answer.
C9_TrueOnFirst200 ==
    /\ [](ret = "true" => status = "200")
    /\ []((InWait /\ status = "200") => pc \in {"wait_response", "wait_ret"})
    /\ [][(pc = "wait_response" /\ status = "200")
            => (pc' = "wait_ret" /\ ret' = "true" /\ elapsed' = elapsed)]_vars
    /\ [][pc = "wait_ret" => ~(InWait' /\ pc' # "wait_ret")]_vars

C9_Witness ==
    /\ pc = "wait_ret" /\ ret = "true" /\ status = "200"
    /\ elapsed > SleepInterval

\* C10: the stages are gated in order over one handle: connect is not called before
\* the wait returned True, no collection operation is made before connect succeeded,
\* and no add_object is issued before the collection was created.
C10_StagesGated ==
    /\ ("connect_called" \in phase \/ pc \in {"connect", "server_connect"}) => "ready" \in phase
    /\ ("schema_called" \in phase \/ pc \in {"create_exists", "create_delete", "create_create"})
            => ("connected" \in phase /\ client # "unbound")
    /\ (pc \in {"create_exists", "create_delete", "create_create"} => client = "open")
    /\ (submitted # <<>> \/ batchOpened > 0 \/ pc \in {"batch_enter", "batch_loop", "batch_exit"})
            => ("created" \in phase /\ collection = CollectionName /\ "connected" \in phase)
    /\ (pc \in {"batch_enter", "batch_loop", "batch_exit"} => client = "open")

C10_Witness ==
    /\ prog = "setup" /\ pc = "batch_loop"
    /\ submitted # <<>>
    /\ {"ready", "connected", "created"} \subseteq phase

\* C11: when the batching context raises, load returns False with no rollback and no
\* retry: what was flushed before the exception stays stored from the raise to the end
\* of the run, no further record is submitted, and the batch session is not opened again.
C11_NoRollbackNoRetry ==
    /\ []("batch_raised" \in phase =>
            /\ loadRet = "false"
            /\ pc \in {"load_ret", "finally", "exited"}
            /\ batchOpened = 1
            /\ buffer = <<>>
            /\ Len(submitted) = i
            /\ ObjectCount(db, CollectionName) + failed <= Len(submitted))
    /\ [][("batch_raised" \in phase')
            => (db' = db /\ submitted' = submitted /\ batchOpened' = batchOpened)]_vars

C11_Witness ==
    /\ "batch_raised" \in phase /\ pc = "exited"
    /\ ObjectCount(db, CollectionName) = 1
    /\ Len(submitted) = 1
    /\ Len(data_objects) = 2

\* C12: progress is reported every 100 records: while n records are loaded, the k-th
\* progress line is printed with the submission of record 100*k and carries 100*k and
\* the total n, so a load that completes has printed exactly floor(n/100) of them
\* before its completion line (two for n = 250, after records 100 and 200).
C12_ProgressEvery100 ==
    /\ Len(reports) = Len(submitted) \div ReportInterval
    /\ \A k \in 1..Len(reports) : reports[k] = <<k * ReportInterval, Len(bbc_data)>>
    /\ (loadRet = "true" =>
            /\ Len(submitted) = Len(bbc_data)
            /\ Len(reports) = Len(bbc_data) \div ReportInterval)

C12_Witness ==
    /\ loadRet = "true"
    /\ Len(bbc_data) = LongLen
    /\ reports = << <<100, LongLen>>, <<200, LongLen>> >>

\* C13 as stated: apart from failed health requests during the wait, every error of a
\* setup run (connection, schema, dataset, refused object, failed batch) ends the
\* process with a non-zero exit status.
C13_EveryErrorExitsNonZero ==
    (prog = "setup" /\ pc = "exited" /\
        (phase \cap (Failures \cup {"file_absent", "batch_raised"}) # {} \/ failed > 0))
        => exitCode = 1

\* C14: when the service rejects exists, delete or create, create_bbc_collection passes
\* the error to main without a retry: no collection operation and no load follows in
\* that run, and the process ends with exit status 1.
C14_SchemaErrorSurfaced ==
    /\ []("schema_failed" \in phase =>
            /\ pc \in {"except", "finally", "exited"}
            /\ "created" \notin phase /\ collection = "none"
            /\ "load_called" \notin phase
            /\ batchOpened = 0 /\ submitted = <<>>
            /\ (pc = "exited" => exitCode = 1))
    /\ [][("schema_failed" \in phase') => (db' = db /\ creates' = creates)]_vars

C14_Witness ==
    /\ "schema_failed" \in phase /\ pc = "exited" /\ exitCode = 1
    /\ found /\ ~Exists(db, CollectionName)

FieldNames ==
    {"article_content", "chunk", "chunk_index", "description", "link", "pubDate", "title"}

DefaultOf(f) == IF f = "chunk_index" THEN 0 ELSE ""

\* C15: the object submitted for a record has exactly the seven fields; a field the
\* record lacks has the empty string (0 for chunk_index), a field it has keeps the
\* record's value; and a load fails only for an absent file or a raising batch, not
\* for a missing field.
C15_DefaultsForMissing ==
    /\ \A k \in 1..Len(submitted) :
          /\ DOMAIN submitted[k] = FieldNames
          /\ \A f \in FieldNames :
                submitted[k][f] = IF f \in DOMAIN bbc_data[k] THEN bbc_data[k][f] ELSE DefaultOf(f)
    /\ (loadRet = "false" => ("file_absent" \in phase \/ "batch_raised" \in phase))
    /\ ("load_raised" \in phase => submitted = <<>> /\ bbc_data = <<>>)

C15_Witness ==
    /\ pc = "load_ret" /\ loadRet = "true"
    /\ Len(submitted) = 2
    /\ bbc_data[2] = PartialItem
    /\ submitted[2].title = "" /\ submitted[2].chunk_index = 0 /\ submitted[2].chunk = "c2"

\* C16 as stated: every call of load_data_to_collection ends by returning True or False,
\* also when the dataset cannot be loaded for another reason than an absent file, and
\* the call does not go back to inserting once it has ended.
C16_LoadReturnsTrueOrFalse ==
    ("load_called" \in phase /\ pc \in {"load_ret", "except", "finally", "exited"})
        => loadRet \in {"true", "false"}

\* C17: while the batching context does not raise, add_object is called once per record
\* in input order: the k-th call carries the object built from the k-th record, and a
\* load that returns True has made exactly as many calls as there are records.
C17_OncePerRecordInOrder ==
    /\ Len(submitted) <= Len(bbc_data)
    /\ \A k \in 1..Len(submitted) : submitted[k] = DataObject(bbc_data[k])
    /\ (pc \in {"batch_loop", "batch_exit"} => Len(submitted) = i)
    /\ (pc = "batch_exit" => Len(submitted) = Len(bbc_data))
    /\ (loadRet = "true" => Len(submitted) = Len(bbc_data))

C17_Witness ==
    /\ pc = "load_ret" /\ loadRet = "true"
    /\ bbc_data = <<LinkItem, FullItem>>
    /\ submitted = <<DataObject(LinkItem), DataObject(FullItem)>>

\* C18: the collection is replaced before the dataset is looked at, so a setup run whose
\* load fails (absent file, or a batch that raises) does not keep earlier data: at its
\* end bbc_collection is the new collection, empty when the file was absent and
\* otherwise holding only objects this run submitted.
C18_FailedLoadLosesPriorData ==
    /\ ("load_called" \in phase => "created" \in phase)
    /\ (prog = "setup" /\ pc = "exited" /\ "load_failed" \in phase) =>
          /\ Len(Named(db, CollectionName)) = 1
          /\ Named(db, CollectionName)[1].properties = SchemaProperties
          /\ LET objects == Named(db, CollectionName)[1].objects
             IN  /\ Len(objects) <= Len(submitted)
                 /\ \A m \in 1..Len(objects) : \E k \in 1..Len(submitted) : objects[m] = submitted[k]
                 /\ ("file_absent" \in phase => objects = <<>>)

C18_Witness ==
    /\ prog = "setup" /\ pc = "exited" /\ exitCode = 1
    /\ run = 1 /\ found
    /\ "file_absent" \in phase
    /\ Named(db, CollectionName) = <<NewCollection>>

\* subprocess.Popen under n contexts in use, each patching what it found
RECURSIVE Layers(_)
Layers(n) == IF n = 0 THEN Original ELSE Patched(Layers(n - 1))

\* C19: suppress_subprocess_output leaves subprocess.Popen as it found it: while the
\* bodies of n nested contexts run, Popen is the original patched n times, and once a
\* context is left, normally or by an exception of its body, Popen is again what it was
\* when that context was entered; with no context in use it is the original.
C19_PopenRestored ==
    /\ popen = Layers(Len(saved))
    /\ \A k \in 1..Len(saved) : saved[k] = Layers(k - 1)
    /\ (pc = "exited" => popen = Original /\ saved = <<>>)
    /\ (prog # "suppress" => popen = Original)

C19_Witness ==
    /\ prog = "suppress" /\ pc = "suppress_unwind"
    /\ raising /\ uses = 2
    /\ Len(saved) = 1 /\ popen = Patched(Original)

====
